---------------------------- MODULE Spec2Model ----------------------------
(***************************************************************************)
(* bitpeer: the paginated collector (collector/bybit_p2p.py), the          *)
(* schema-agnostic extractor (parser/bybit_p2p.py) and the best-price      *)
(* selection (metrics/best_price.py).                                      *)
(*                                                                         *)
(* Four specifications share the module:                                   *)
(*   Spec      one collect_once cycle: markets in sequence, page 1, the    *)
(*             concurrent fetch tasks of pages 2..N, the Raw Store;        *)
(*   SpecPages _derive_total_pages and the page plan of collect_once as    *)
(*             pure functions over drawn page-1 records and caps;          *)
(*   SpecParse _extract_offer_items and parse_raw_fetch over drawn         *)
(*             payloads;                                                   *)
(*   SpecBest  best_single over drawn offer lists and constraints.         *)
(***************************************************************************)
EXTENDS Integers, Sequences, FiniteSets, TLC

VARIABLES
    \* ---- Spec: collect_once ----
    pc,         \* position of collect_once: "page1" | "gather" | "done" | "crashed" | "off"
    mi,         \* index in cfg.markets of the market being processed
    max_pages,  \* cfg.collector.max_pages
    fetch,      \* fetch[p]: state of fetch_market_page(market mi, page p)
    completed,  \* pages of finished tasks in completion order, not yet yielded by as_completed
    store,      \* the Raw Store: appended records, in append order
    issued,     \* the <<market, page>> pairs fetch_market_page was called for
    derived,    \* derived[m]: what _derive_total_pages gave for market m, once called
    crash,      \* why collect_once raised: "" | "store" | "derive"
    \* ---- SpecPages ----
    pgPc, pgRecord, pgMaxPages, pgTotal, pgPages,
    \* ---- SpecParse ----
    psPc, psRecord, psItems, psIdx, psOffers,
    \* ---- SpecBest ----
    bsPc,          \* position of best_single: "loop" | "done" | "off"
    bsOffers,      \* offers
    bsDirection,   \* direction
    bsAmount,      \* amount
    bsConstraints, \* constraints
    bsIdx,         \* index in offers of the offer the loop is at
    candidates,    \* candidates
    bsResult,      \* what best_single returned
    \* ---- SpecHeaders ----
    hdPc,          \* position: "fetch" | "store" | "done" | "off"
    hdHeaders,     \* cfg.bybit_p2p_endpoint.headers
    hdPage,        \* page
    hdRecord,      \* the record fetch_market_page returned
    hdStore        \* the Raw Store

cvars  == <<pc, mi, max_pages, fetch, completed, store, issued, derived, crash>>
pgvars == <<pgPc, pgRecord, pgMaxPages, pgTotal, pgPages>>
psvars == <<psPc, psRecord, psItems, psIdx, psOffers>>
bsvars == <<bsPc, bsOffers, bsDirection, bsAmount, bsConstraints, bsIdx, candidates,
            bsResult>>
hdvars == <<hdPc, hdHeaders, hdPage, hdRecord, hdStore>>
vars   == <<cvars, pgvars, psvars, bsvars, hdvars>>

-----------------------------------------------------------------------------
(* Python values.  Each type has its own field name, so that two values of  *)
(* different types are unequal records.                                     *)

None      == [t |-> "none"]
VBool(b)  == [t |-> "bool", b |-> b]
\* an int small enough that float arithmetic on it is exact
VInt(n)   == [t |-> "int", big |-> FALSE, n |-> n]
\* an int of 1.8e308 or more, such as 10**400: json.loads parses it, float() cannot hold it
VHugeInt  == [t |-> "int", big |-> TRUE, n |-> 0]
\* a str, as the sequence of its characters
VStr(cs)  == [t |-> "str", cs |-> cs]
\* a float of integral value n
\* a float: a number, or the float that is not a number
VFloat(n) == [t |-> "float", nan |-> FALSE, f |-> n]
NaN       == [t |-> "float", nan |-> TRUE, f |-> 0]
\* a < b, a <= b and a * b on floats: a comparison with NaN is false
FloatLt(a, b) == ~a.nan /\ ~b.nan /\ a.f < b.f
FloatLe(a, b) == ~a.nan /\ ~b.nan /\ a.f <= b.f
FloatMul(a, b) == IF a.nan \/ b.nan THEN NaN ELSE VFloat(a.f * b.f)
VList(xs) == [t |-> "list", xs |-> xs]
\* a dict, as the sequence of its <<key, value>> pairs in insertion order
VDict(kv) == [t |-> "dict", kv |-> kv]

IsDict(v) == v.t = "dict"
IsList(v) == v.t = "list"

\* k in d
HasKey(d, k) == \E i \in 1..Len(d.kv) : d.kv[i][1] = k
\* d[k]
Item(d, k) == d.kv[CHOOSE i \in 1..Len(d.kv) : d.kv[i][1] = k][2]
\* d.get(k)
Get(d, k) == IF HasKey(d, k) THEN Item(d, k) ELSE None

\* bool(v): None, False, 0, "", [] and {} are falsy
Truthy(v) ==
    CASE v.t = "none" -> FALSE
      [] v.t = "bool" -> v.b
      [] v.t = "int"  -> v.big \/ v.n # 0
      [] v.t = "float" -> v.f # 0
      [] v.t = "str"  -> v.cs # <<>>
      [] v.t = "list" -> v.xs # <<>>
      [] v.t = "dict" -> v.kv # <<>>

\* a or b
Or(a, b) == IF Truthy(a) THEN a ELSE b

\* str(n) for an int of one digit
PageStr(p) == <<"1", "2", "3", "4", "5", "6", "7", "8", "9">>[p]

\* The outcome of a call: a returned value, or a raised exception.
Return(v) == [exc |-> "", v |-> v]
Raise(e)  == [exc |-> e]
Raised(r) == r.exc # ""

-----------------------------------------------------------------------------
(* Numeric parsing of strings.                                              *)

Digits == {"0", "1", "2", "3", "4", "5", "6", "7", "8", "9"}

DigitVal(c) ==
    CASE c = "0" -> 0 [] c = "1" -> 1 [] c = "2" -> 2 [] c = "3" -> 3
      [] c = "4" -> 4 [] c = "5" -> 5 [] c = "6" -> 6 [] c = "7" -> 7
      [] c = "8" -> 8 [] c = "9" -> 9

RECURSIVE LStrip(_)
LStrip(cs) == IF cs # <<>> /\ Head(cs) = " " THEN LStrip(Tail(cs)) ELSE cs

RECURSIVE RStrip(_)
RStrip(cs) ==
    IF cs # <<>> /\ cs[Len(cs)] = " " THEN RStrip(SubSeq(cs, 1, Len(cs) - 1)) ELSE cs

\* str.strip()
Strip(cs) == RStrip(LStrip(cs))

\* str.replace(c, "")
Remove(cs, c) == SelectSeq(cs, LAMBDA x : x # c)

RECURSIVE DigitsVal(_)
DigitsVal(cs) ==
    IF cs = <<>> THEN 0
    ELSE 10 * DigitsVal(SubSeq(cs, 1, Len(cs) - 1)) + DigitVal(cs[Len(cs)])

\* The decimal literal both int(str) and float(str) accept over the model's
\* alphabet: surrounding blanks, an optional sign, one or more digits.
ParseDecimal(cs) ==
    LET s    == Strip(cs)
        neg  == s # <<>> /\ Head(s) = "-"
        body == IF s # <<>> /\ Head(s) \in {"-", "+"} THEN Tail(s) ELSE s
    IN  IF body # <<>> /\ \A i \in 1..Len(body) : body[i] \in Digits
        THEN Return(IF neg THEN 0 - DigitsVal(body) ELSE DigitsVal(body))
        ELSE Raise("ValueError")

\* int(v), as _derive_total_pages calls it.  The result is a VInt or VHugeInt.
int(v) ==
    CASE v.t = "int"  -> Return(v)
      [] v.t = "bool" -> Return(VInt(IF v.b THEN 1 ELSE 0))
      [] v.t = "str"  -> LET r == ParseDecimal(v.cs)
                         IN  IF Raised(r) THEN r ELSE Return(VInt(r.v))
      [] OTHER        -> Raise("TypeError")

-----------------------------------------------------------------------------
(* RawFetchRecord (models.py) and the text of a response.                   *)

\* resp.text of a response whose body serialises the JSON document doc
JsonText(doc) == [t |-> "json", doc |-> doc]
\* resp.text of a response with an empty body
EmptyText == VStr(<<>>)
\* resp.text of a response whose body is not JSON
GarbageText == VStr(<<"x">>)

\* `not record.response_text`: None and "" are falsy
NoText(text) == IF text.t = "json" THEN FALSE ELSE ~Truthy(text)

\* json.loads(text); the plain strings the model draws as a body are not JSON
json_loads(text) ==
    IF text.t = "json" THEN Return(text.doc) ELSE Raise("JSONDecodeError")

\* cfg.markets
Markets ==
    << [name |-> "m1", fiat |-> "VND", side |-> "BUY"],
       [name |-> "m2", fiat |-> "VND", side |-> "SELL"] >>

RawFetchRecord(market, page, request_body, http_status, response_text, error) ==
    [market |-> market.name, fiat |-> market.fiat, side |-> market.side,
     page |-> page, request_body |-> request_body,
     http_status |-> http_status, response_text |-> response_text, error |-> error]

\* _build_body on the endpoint template {"page": "{page}", "size": "10"}
_build_body(page) ==
    VDict(<< <<"page", VStr(<<PageStr(page)>>)>>, <<"size", VStr(<<"1", "0">>)>> >>)

\* the error of the last attempt is not recorded
ErrorRepr_unrecorded == None

\* repr(e) of the exception the last attempt raised
ErrorRepr == VStr(<<"E">>)

\* the letters in upper and in lower case
UpperCase == <<"A", "B", "C", "D", "E", "F", "G", "H", "I", "J", "K", "L", "M", "N", "O", "P", "Q", "R", "S", "T", "U", "V", "W", "X", "Y", "Z">>
LowerCase == <<"a", "b", "c", "d", "e", "f", "g", "h", "i", "j", "k", "l", "m", "n", "o", "p", "q", "r", "s", "t", "u", "v", "w", "x", "y", "z">>

\* str.lower() on one character, then on a string
LowerChar(c) ==
    IF \E i \in 1..Len(UpperCase) : UpperCase[i] = c
    THEN LowerCase[CHOOSE i \in 1..Len(UpperCase) : UpperCase[i] = c]
    ELSE c
lower(cs) == [i \in 1..Len(cs) |-> LowerChar(cs[i])]

_SENSITIVE_HEADERS ==
    {<<"a", "u", "t", "h", "o", "r", "i", "z", "a", "t", "i", "o", "n">>,
     <<"c", "o", "o", "k", "i", "e">>,
     <<"x", "-", "a", "p", "i", "-", "k", "e", "y">>,
     <<"x", "-", "c", "s", "r", "f", "-", "t", "o", "k", "e", "n">>,
     <<"g", "u", "i", "d">>,
     <<"r", "i", "s", "k", "t", "o", "k", "e", "n">>,
     <<"t", "r", "a", "c", "e", "p", "a", "r", "e", "n", "t">>}

\* the name is compared as it is written
_sanitize_headers_case_sensitive(headers) ==
    SelectSeq(headers, LAMBDA kv : kv[1] \notin _SENSITIVE_HEADERS)

\* headers: the <<name, value>> pairs of a dict[str, str], in insertion order
_sanitize_headers(headers) ==
    SelectSeq(headers, LAMBDA kv : lower(kv[1]) \notin _SENSITIVE_HEADERS)

\* lines 99-112: the record of fetch_market_page, request headers included
FetchedRecord(headers, market, page, http_status, response_text, error) ==
    [market |-> market.name, fiat |-> market.fiat, side |-> market.side,
     page |-> page, request_headers |-> _sanitize_headers(headers),
     request_body |-> _build_body(page),
     http_status |-> http_status, response_text |-> response_text, error |-> error]

-----------------------------------------------------------------------------
(* collector/bybit_p2p.py: _derive_total_pages and the page plan.           *)

safety_cap == 200
default_page_size == 10

Max2(a, b) == IF a >= b THEN a ELSE b
Min2(a, b) == IF a <= b THEN a ELSE b

\* math.ceil(a / b) for ints a and b >= 1 small enough that the float
\* quotient rounds to the same integer as the exact one
CeilDiv(a, b) == 0 - ((0 - a) \div b)

\* math.ceil(total_count / page_size): the true division of a huge int by a
\* small one raises OverflowError ("integer division result too large for a
\* float"); page_size is never huge in the model.
ceil_true_div(total_count, page_size) ==
    CASE ~total_count.big /\ ~page_size.big ->
             Return(CeilDiv(total_count.n, page_size.n))
      [] total_count.big /\ ~page_size.big -> Raise("OverflowError")

\* max(int(size_raw), 1), or 10 when int() raises
page_size_of(size_raw) ==
    LET r == int(size_raw)
    IN  IF Raised(r) THEN VInt(default_page_size)
        ELSE IF r.v.big THEN r.v ELSE VInt(Max2(r.v.n, 1))

\* (a variant that lets the exception of int(count_raw) escape)
_derive_total_pages_count_unguarded(record) ==
    IF NoText(record.response_text) THEN Return(1)
    ELSE
    LET payload == json_loads(record.response_text)
    IN  IF Raised(payload) THEN Return(1)
        ELSE
        LET result == IF IsDict(payload.v) THEN Get(payload.v, "result") ELSE None
        IN  IF ~IsDict(result) THEN Return(1)
            ELSE
            LET count_raw   == Get(result, "count")
                total_count == int(count_raw)
            IN  IF Raised(total_count) THEN total_count
                ELSE
                LET size_raw  == IF HasKey(record.request_body, "size")
                                 THEN Item(record.request_body, "size")
                                 ELSE VInt(default_page_size)
                    page_size == page_size_of(size_raw)
                    pages     == ceil_true_div(total_count.v, page_size)
                IN  IF Raised(pages) THEN pages ELSE Return(Max2(1, pages.v))

_derive_total_pages(record) ==
    IF NoText(record.response_text) THEN Return(1)
    ELSE
    LET payload == json_loads(record.response_text)
    IN  IF Raised(payload) THEN Return(1)
        ELSE
        LET result == IF IsDict(payload.v) THEN Get(payload.v, "result") ELSE None
        IN  IF ~IsDict(result) THEN Return(1)
            ELSE
            LET count_raw   == Get(result, "count")
                total_count == int(count_raw)
            IN  IF Raised(total_count) THEN Return(1)
                ELSE
                LET size_raw  == IF HasKey(record.request_body, "size")
                                 THEN Item(record.request_body, "size")
                                 ELSE VInt(default_page_size)
                    page_size == page_size_of(size_raw)
                    pages     == ceil_true_div(total_count.v, page_size)
                IN  IF Raised(pages) THEN pages ELSE Return(Max2(1, pages.v))

\* (a variant that takes a manual cap of 0 for a cap)
pages_to_fetch_zero_caps(total_pages, maxp) ==
    IF maxp >= 0 THEN Min2(Min2(total_pages, maxp), safety_cap)
    ELSE Min2(total_pages, safety_cap)

\* collect_once, lines 126-130
pages_to_fetch(total_pages, maxp) ==
    IF maxp > 0 THEN Min2(Min2(total_pages, maxp), safety_cap)
    ELSE Min2(total_pages, safety_cap)

\* collect_once, lines 132-137: the pages a task is created for
task_pages(total_pages, maxp) ==
    IF pages_to_fetch(total_pages, maxp) <= 1 THEN {}
    ELSE 2..pages_to_fetch(total_pages, maxp)

-----------------------------------------------------------------------------
(* parser/bybit_p2p.py                                                      *)

\* _to_float: float(value) of an int too large for a float raises
\* OverflowError, which the function does not catch
\* float(str) also accepts the literal of the float that is not a number
NanLiteral(cs) == cs = <<"n", "a", "n">>

_to_float(value) ==
    CASE value.t = "none"  -> Return(None)
      [] value.t = "bool"  -> Return(VFloat(IF value.b THEN 1 ELSE 0))
      [] value.t = "int"   -> IF value.big THEN Raise("OverflowError")
                              ELSE Return(VFloat(value.n))
      [] value.t = "float" -> Return(value)
      [] value.t = "str"   -> LET cs == Strip(Remove(value.cs, ","))
                                  r  == ParseDecimal(cs)
                              IN  IF NanLiteral(cs) THEN Return(NaN)
                                  ELSE IF Raised(r) THEN Return(None)
                                  ELSE Return(VFloat(r.v))
      [] OTHER             -> Return(None)

RECURSIVE _first_present(_, _)
_first_present(d, keys) ==
    IF keys = <<>> THEN None
    ELSE IF HasKey(d, Head(keys)) THEN Item(d, Head(keys))
    ELSE _first_present(d, Tail(keys))

_maybe_dict(value) == IF IsDict(value) THEN value ELSE None

_PRICE_KEYS      == <<"price", "unitPrice", "priceValue", "rate", "unit_price">>
_MIN_KEYS        == <<"minAmount", "minFiat", "minOrderAmount", "min", "min_amount">>
_MAX_KEYS        == <<"maxAmount", "maxFiat", "maxOrderAmount", "max", "max_amount">>
_PAYMENT_KEYS    == <<"payment", "payments", "paymentMethods", "payment_methods",
                      "payMethods">>
_MERCHANT_KEYS   == <<"isMerchant", "merchant", "is_merchant">>
_RATING_KEYS     == <<"rating", "userRating", "user_rating", "score">>
_ADVERTISER_KEYS == <<"userId", "uid", "advertiserId", "advertiser_id", "nickName",
                      "nickname">>

Range(seq) == {seq[i] : i \in 1..Len(seq)}
Keys(d)    == {d.kv[i][1] : i \in 1..Len(d.kv)}
\* d.values(), in insertion order
Values(d)  == [i \in 1..Len(d.kv) |-> d.kv[i][2]]
\* seq[:n]
Prefix(seq, n) == SubSeq(seq, 1, Min2(n, Len(seq)))

looks_like_offer(d) ==
    \/ Keys(d) \cap Range(_PRICE_KEYS) # {}
    \/ "adv" \in Keys(d) \/ "advertiser" \in Keys(d)

\* the elements sampled for isinstance(x, dict): lines 91 and 113
first_checked == 3
\* the dicts sampled for looks_like_offer: line 93
sampled == 5
\* (a variant that accepts a list on one offer-like dict)
min_offer_like_one == 2 - 1

\* the offer-like dicts a list needs among the sampled ones: line 93
min_offer_like == 2
\* find(payload, depth=6): line 116
max_depth_seven == 6 + 1
max_depth == 6

\* all(isinstance(x, dict) for x in v[: min(3, len(v))])
FirstAreDicts(xs) == \A i \in 1..Len(Prefix(xs, first_checked)) : IsDict(xs[i])

\* [x for x in obj if isinstance(x, dict)]
DictsOf(xs) == SelectSeq(xs, IsDict)

\* sum(1 for d in dicts[: min(5, len(dicts))] if looks_like_offer(d))
OfferLikeSampled(dicts) ==
    Cardinality({i \in 1..Len(Prefix(dicts, sampled)) : looks_like_offer(dicts[i])})

\* find, lines 90-94: the list itself is the offer list
accepts(xs) ==
    /\ FirstAreDicts(xs)
    /\ DictsOf(xs) # <<>>
    /\ OfferLikeSampled(DictsOf(xs)) >= min_offer_like

RECURSIVE find(_, _)
RECURSIVE find_first(_, _)
\* find: None, or the VList of the dicts of the list found
find(obj, depth) ==
    IF depth <= 0 THEN None
    ELSE IF IsList(obj) /\ obj.xs # <<>>
         THEN IF accepts(obj.xs) THEN VList(DictsOf(obj.xs))
              ELSE find_first(obj.xs, depth - 1)
    ELSE IF IsDict(obj) THEN find_first(Values(obj), depth - 1)
    ELSE None

\* the loops of find: the first child for which find returns a list
find_first(xs, depth) ==
    IF xs = <<>> THEN None
    ELSE LET res == find(Head(xs), depth)
         IN  IF res # None THEN res ELSE find_first(Tail(xs), depth)

WellKnownKeys == <<"items", "data", "list", "rows">>

\* lines 111-114: the first well-known key of result holding a list of dicts
RECURSIVE well_known(_, _)
well_known(result, keys) ==
    IF keys = <<>> THEN None
    ELSE LET v == Get(result, Head(keys))
         IN  IF IsList(v) /\ v.xs # <<>> /\ FirstAreDicts(v.xs)
             THEN VList(DictsOf(v.xs))
             ELSE well_known(result, Tail(keys))

\* _extract_offer_items: the sequence of the items
_extract_offer_items(payload) ==
    LET result == IF IsDict(payload) THEN Get(payload, "result") ELSE None
        known  == IF IsDict(result) THEN well_known(result, WellKnownKeys) ELSE None
    IN  IF known # None THEN known.xs
        ELSE LET found == find(payload, max_depth)
             IN  IF Truthy(found) THEN found.xs ELSE <<>>

\* str(v), for the values the model draws as names and keys
str(v) ==
    CASE v.t = "str" -> v.cs
      [] v.t = "int" /\ ~v.big /\ v.n \in 1..9 -> <<PageStr(v.n)>>

\* lines 130-136: the name of a payment sub-object
PaymentName(p) ==
    Or(Get(p, "name"), Or(Get(p, "paymentMethodName"),
       Or(Get(p, "identifier"), Or(Get(p, "id"), Get(p, "key")))))

\* lines 124-138: the method names of a list, with repeats
RECURSIVE MethodsOfList(_)
MethodsOfList(xs) ==
    IF xs = <<>> THEN <<>>
    ELSE LET p == Head(xs)
             rest == MethodsOfList(Tail(xs))
         IN  IF p.t = "str" THEN <<p.cs>> \o rest
             ELSE IF IsDict(p) /\ Truthy(PaymentName(p))
                  THEN <<str(PaymentName(p))>> \o rest
             ELSE rest

\* lines 143-148: dedupe, keep order
RECURSIVE Dedupe(_, _)
Dedupe(ms, out) ==
    IF ms = <<>> THEN out
    ELSE Dedupe(Tail(ms), IF Head(ms) \in Range(out) THEN out ELSE Append(out, Head(ms)))

\* _extract_payment_methods; a key of a dict of payments is one name
_extract_payment_methods(item) ==
    LET raw == _first_present(item, _PAYMENT_KEYS)
        methods == IF IsList(raw) THEN MethodsOfList(raw.xs)
                   ELSE IF IsDict(raw) THEN [i \in 1..Len(raw.kv) |-> <<raw.kv[i][1]>>]
                   ELSE <<>>
    IN  Dedupe(methods, <<>>)

Offer(record, price, min_fiat, max_fiat, payment_methods, is_merchant, rating, advertiser_key) ==
    [fiat |-> record.fiat, side |-> record.side,
     price_fiat_per_usdt |-> price, min_fiat |-> min_fiat, max_fiat |-> max_fiat,
     payment_methods |-> payment_methods, is_merchant |-> is_merchant,
     rating |-> rating, advertiser_key |-> advertiser_key,
     market |-> record.market, page |-> record.page]

\* parse_raw_fetch, lines 164-199, for one item: Return(None) when the item
\* is dropped, Return(offer), or the exception that leaves the function
parse_item(record, item) ==
    LET adv == Or(_maybe_dict(Get(item, "adv")),
                  Or(_maybe_dict(Get(item, "advertisement")), VDict(<<>>)))
        advertiser == Or(_maybe_dict(Get(item, "advertiser")),
                         Or(_maybe_dict(Get(item, "user")), VDict(<<>>)))
        price    == _to_float(Or(_first_present(adv, _PRICE_KEYS),
                                 _first_present(item, _PRICE_KEYS)))
        min_fiat == _to_float(Or(_first_present(adv, _MIN_KEYS),
                                 _first_present(item, _MIN_KEYS)))
        max_fiat == _to_float(Or(_first_present(adv, _MAX_KEYS),
                                 _first_present(item, _MAX_KEYS)))
        is_merchant_raw == Or(_first_present(advertiser, _MERCHANT_KEYS),
                              _first_present(item, _MERCHANT_KEYS))
        is_merchant == IF is_merchant_raw # None THEN VBool(Truthy(is_merchant_raw))
                       ELSE None
        rating_raw == Or(_first_present(advertiser, _RATING_KEYS),
                         _first_present(item, _RATING_KEYS))
        rating == _to_float(rating_raw)
        advertiser_key_raw == Or(_first_present(advertiser, _ADVERTISER_KEYS),
                                 _first_present(item, _ADVERTISER_KEYS))
        advertiser_key == IF advertiser_key_raw # None
                          THEN VStr(str(advertiser_key_raw)) ELSE None
    IN  IF Raised(price) THEN price
        ELSE IF Raised(min_fiat) THEN min_fiat
        ELSE IF Raised(max_fiat) THEN max_fiat
        ELSE IF price.v = None \/ min_fiat.v = None \/ max_fiat.v = None
             THEN Return(None)
        ELSE IF Raised(rating) THEN rating
        ELSE Return(Offer(record, price.v, min_fiat.v, max_fiat.v,
                          _extract_payment_methods(item), is_merchant, rating.v,
                          advertiser_key))

-----------------------------------------------------------------------------
(* best_price.py: the pure part.                                            *)

\* a set[str]
VSet(s) == [t |-> "set", s |-> s]

Constraints(payment_methods_any, merchant_only, min_rating) ==
    [payment_methods_any |-> payment_methods_any, merchant_only |-> merchant_only,
     min_rating |-> min_rating]

BestSingleResult(offer, price_fiat_per_usdt) ==
    [t |-> "result", offer |-> offer, price_fiat_per_usdt |-> price_fiat_per_usdt]

\* the rating rule fails an offer of unknown rating too
_passes_constraints_unknown_fails(offer, c) ==
    IF c.merchant_only /\ offer.is_merchant # VBool(TRUE) THEN FALSE
    ELSE IF offer.rating = None \/ FloatLt(offer.rating, c.min_rating) THEN FALSE
    ELSE IF c.payment_methods_any # None /\ c.payment_methods_any.s # {}
         THEN \E i \in 1..Len(offer.payment_methods) :
                  offer.payment_methods[i] \in c.payment_methods_any.s
    ELSE TRUE

_passes_constraints(offer, c) ==
    IF c.merchant_only /\ offer.is_merchant # VBool(TRUE) THEN FALSE
    ELSE IF offer.rating # None /\ FloatLt(offer.rating, c.min_rating) THEN FALSE
    ELSE IF c.payment_methods_any # None /\ c.payment_methods_any.s # {}
         THEN \E i \in 1..Len(offer.payment_methods) :
                  offer.payment_methods[i] \in c.payment_methods_any.s
    ELSE TRUE

_executable_for_fiat_amount(offer, amount_fiat) ==
    FloatLe(offer.min_fiat, amount_fiat) /\ FloatLe(amount_fiat, offer.max_fiat)

\* the amount is taken for a fiat amount as it is
_executable_for_usdt_amount_unconverted(offer, amount_usdt) ==
    FloatLe(offer.min_fiat, amount_usdt) /\ FloatLe(amount_usdt, offer.max_fiat)

_executable_for_usdt_amount(offer, amount_usdt) ==
    LET amount_fiat == FloatMul(amount_usdt, offer.price_fiat_per_usdt)
    IN  FloatLe(offer.min_fiat, amount_fiat) /\ FloatLe(amount_fiat, offer.max_fiat)

\* lines 57-68: whether the loop of best_single keeps the offer
keeps(offer, direction, amount, constraints) ==
    IF ~_passes_constraints(offer, constraints) THEN FALSE
    ELSE IF direction = "buy_usdt"
         THEN offer.side = "SELL" /\ _executable_for_fiat_amount(offer, amount)
    ELSE offer.side = "BUY" /\ _executable_for_usdt_amount(offer, amount)

\* min(xs, key=price) with best the least so far: a later offer replaces it
\* only if its price is less
RECURSIVE min_from(_, _)
min_from(best, xs) ==
    IF xs = <<>> THEN best
    ELSE min_from(IF FloatLt(Head(xs).price_fiat_per_usdt, best.price_fiat_per_usdt)
                  THEN Head(xs) ELSE best, Tail(xs))

\* max(xs, key=price): a later offer replaces best only if its price is greater
RECURSIVE max_from(_, _)
max_from(best, xs) ==
    IF xs = <<>> THEN best
    ELSE max_from(IF FloatLt(best.price_fiat_per_usdt, Head(xs).price_fiat_per_usdt)
                  THEN Head(xs) ELSE best, Tail(xs))

\* lines 74-77
best_of(cands, direction) ==
    IF direction = "buy_usdt" THEN min_from(Head(cands), Tail(cands))
    ELSE max_from(Head(cands), Tail(cands))

-----------------------------------------------------------------------------
(* A specification leaves the variables of the others at rest.              *)

CollectorOff ==
    /\ pc = "off" /\ mi = 0 /\ max_pages = 0 /\ fetch = <<>> /\ completed = <<>>
    /\ store = <<>> /\ issued = {} /\ derived = <<>> /\ crash = ""

ParseOff ==
    /\ psPc = "off" /\ psRecord = None /\ psItems = <<>> /\ psIdx = 0
    /\ psOffers = <<>>

BestOff ==
    /\ bsPc = "off" /\ bsOffers = <<>> /\ bsDirection = "" /\ bsAmount = VFloat(0)
    /\ bsConstraints = None /\ bsIdx = 0 /\ candidates = <<>> /\ bsResult = None

HeadersOff ==
    /\ hdPc = "off" /\ hdHeaders = <<>> /\ hdPage = 0 /\ hdRecord = None
    /\ hdStore = <<>>

-----------------------------------------------------------------------------
(* SpecPages: the inputs drawn.                                             *)

\* result.count of the page-1 payload
Counts ==
    {VInt(n) : n \in {0 - 5, 0, 1, 9, 10, 11, 25, 1990, 1991, 2000, 2001, 2500}}
    \cup {VHugeInt}

\* counts int() accepts that are no JSON integer
CoercedCounts == {VBool(TRUE), VStr(<<"2", "5">>), VStr(<<" ", "7">>)}

\* counts int() rejects
BadCounts == {None, VStr(<<"x">>), VStr(<<>>), VList(<<>>), VDict(<<>>)}

ResultWith(count) == JsonText(VDict(<< <<"result", VDict(<< <<"count", count>> >>)>> >>))

\* page-1 bodies from which no count can be read
NoCountTexts ==
    {None, EmptyText, GarbageText,
     JsonText(VList(<<>>)), JsonText(VInt(3)),
     JsonText(VDict(<< <<"retCode", VInt(0)>> >>)),
     JsonText(VDict(<< <<"result", VList(<<VInt(1)>>)>> >>)),
     JsonText(VDict(<< <<"result", None>> >>)),
     JsonText(VDict(<< <<"result", VDict(<< <<"items", VList(<<>>)>> >>)>> >>))}
    \cup {ResultWith(c) : c \in BadCounts}

PageOneTexts ==
    NoCountTexts \cup {ResultWith(c) : c \in Counts \cup CoercedCounts}

\* request bodies: the size field as the endpoint template may give it
SizeBodies ==
    {VDict(<< <<"page", VStr(<<"1">>)>> >>)} \cup
    {VDict(<< <<"page", VStr(<<"1">>)>>, <<"size", sz>> >>) :
        sz \in {VStr(<<"1", "0">>), VStr(<<"3">>), VStr(<<"0">>), VStr(<<"-", "2">>),
                VStr(<<" ", "4", " ">>), VStr(<<"x">>), VStr(<<>>), VInt(7),
                VList(<<>>)}}

MaxPagesChoices == {0 - 1, 0, 1, 2, 5, 199, 200, 201, 300}

PagesInit ==
    /\ pgPc = "start"
    /\ pgRecord \in {RawFetchRecord(Markets[1], 1, b, IF t = None THEN None ELSE VInt(200), t,
                                    IF t = None THEN VStr(<<"x">>) ELSE None) :
                        b \in SizeBodies, t \in PageOneTexts}
    /\ pgMaxPages \in MaxPagesChoices
    /\ pgTotal = Return(0)
    /\ pgPages = {1}

PagesOff ==
    /\ pgPc = "off" /\ pgRecord = None /\ pgMaxPages = 0
    /\ pgTotal = Return(0) /\ pgPages = {}

\* line 124
DeriveTotal ==
    /\ pgPc = "start"
    /\ pgTotal' = _derive_total_pages(pgRecord)
    /\ pgPc' = IF Raised(pgTotal') THEN "raised" ELSE "derived"
    /\ UNCHANGED <<pgRecord, pgMaxPages, pgPages>>
    /\ UNCHANGED <<cvars, psvars, bsvars, hdvars>>

\* lines 126-137
PlanPages ==
    /\ pgPc = "derived"
    /\ pgPages' = pgPages \cup task_pages(pgTotal.v, pgMaxPages)
    /\ pgPc' = "planned"
    /\ UNCHANGED <<pgRecord, pgMaxPages, pgTotal>>
    /\ UNCHANGED <<cvars, psvars, bsvars, hdvars>>

-----------------------------------------------------------------------------
(* SpecPages: _derive_total_pages and the page plan, applied to the draw.   *)

InitPages == PagesInit /\ CollectorOff /\ ParseOff /\ BestOff /\ HeadersOff

NextPages == DeriveTotal \/ PlanPages

SpecPages == InitPages /\ [][NextPages]_vars

-----------------------------------------------------------------------------
(* Claims on SpecPages.                                                     *)

\* min(derived total, manual cap when positive, safety cap 200)
C2_Limit ==
    LET caps == {pgTotal.v, 200} \cup (IF pgMaxPages > 0 THEN {pgMaxPages} ELSE {})
    IN  CHOOSE x \in caps : \A y \in caps : x <= y

\* C2: the number of pages fetched for a market never exceeds the minimum of
\* the derived total, the manual cap max_pages when it is positive (a cap of
\* 0 or less is no limit) and the safety cap 200; page 1 is always fetched,
\* the pages fetched are exactly 1..that minimum, and when the minimum is 1 or
\* less only page 1 is fetched.
C2_PagesWithinCaps ==
    pgPc \in {"derived", "planned"} =>
        /\ 1 \in pgPages
        /\ Cardinality(pgPages) <= C2_Limit
        /\ pgPc = "planned" => pgPages = 1..C2_Limit
        /\ C2_Limit <= 1 => pgPages = {1}

\* C2 witness: without a manual cap, a derived total above 200 is cut to the
\* 200 pages of the safety cap
C2_Witness ==
    /\ pgPc = "planned" /\ pgMaxPages <= 0
    /\ pgTotal.v > 200 /\ pgPages = 1..200

\* the page-1 record carries a JSON object with a result object with an
\* integer count
C4_HasIntegerCount ==
    /\ pgRecord.response_text.t = "json"
    /\ pgRecord.response_text \in {ResultWith(c) : c \in Counts}

C4_Count == Item(Item(pgRecord.response_text.doc, "result"), "count")

\* the size field of the request body as an integer floored at 1, or 10 when
\* the field is absent or not numeric
C4_PageSize ==
    LET body == pgRecord.request_body
        sz   == IF HasKey(body, "size") THEN Item(body, "size") ELSE None
    IN  CASE sz.t = "int" -> Max2(sz.n, 1)
          [] sz.t = "str" /\ ~Raised(ParseDecimal(sz.cs)) ->
                Max2(ParseDecimal(sz.cs).v, 1)
          [] OTHER -> 10

\* C4: for every page-1 record whose body is a JSON object with a result
\* object carrying an integer count, _derive_total_pages returns
\* max(1, ceil(count / page_size)).
C4_DerivedIsCeil ==
    (pgPc # "start" /\ C4_HasIntegerCount) =>
        /\ ~Raised(pgTotal)
        /\ ~C4_Count.big =>
              /\ pgTotal.v >= 1
              /\ pgTotal.v * C4_PageSize >= C4_Count.n
              /\ pgTotal.v > 1 => (pgTotal.v - 1) * C4_PageSize < C4_Count.n

-----------------------------------------------------------------------------
(* SpecParse: the payloads drawn.                                           *)

\* the longest list drawn
MaxListLen == 6

\* list elements: a complete offer, a dict that is no offer, a string
ElemOffer ==
    VDict(<< <<"price", VStr(<<"3">>)>>, <<"minAmount", VInt(1)>>,
             <<"maxAmount", VInt(9)>> >>)
ElemOther == VDict(<< <<"foo", VInt(1)>> >>)
ElemStr   == VStr(<<"x">>)
\* an item whose offer fields sit in its adv sub-object
ElemAdv ==
    VDict(<< <<"adv", VDict(<< <<"unitPrice", VInt(4)>>, <<"min", VInt(2)>>,
                               <<"max", VInt(8)>> >>)>> >>)

Lists == UNION {[1..n -> {ElemOffer, ElemOther, ElemStr}] : n \in 0..MaxListLen}

SmallLists ==
    {<<>>, <<ElemOther, ElemOther>>, <<ElemOffer, ElemOffer>>, <<ElemAdv, ElemAdv>>,
     <<ElemOffer, ElemOther>>, <<ElemStr, ElemOffer, ElemOffer>>}

RECURSIVE Wrapped(_, _)
\* v under k nested dicts
Wrapped(v, k) == IF k = 0 THEN v ELSE VDict(<< <<"d", Wrapped(v, k - 1)>> >>)

\* the lists short enough to go under every shape of payload
ShortLists == {xs \in Lists : Len(xs) <= 4}

\* payloads holding one list: every list as the payload itself; the short
\* ones in a well-known shape, under result in no well-known shape, and under
\* nested objects at the last level searched and at the first one not searched
OneListPayloads ==
    {VList(xs) : xs \in Lists}
    \cup {VDict(<< <<"result", VDict(<< <<"items", VList(xs)>> >>)>> >>) : xs \in ShortLists}
    \cup {VDict(<< <<"retCode", VInt(0)>>,
                   <<"result", VDict(<< <<"count", VInt(25)>>,
                                        <<"ads", VList(xs)>> >>)>> >>) : xs \in ShortLists}
    \cup {Wrapped(VList(xs), max_depth - 1) : xs \in ShortLists}
    \cup {Wrapped(VList(xs), max_depth) : xs \in ShortLists}

\* payloads holding two lists
TwoListPayloads ==
    UNION {{VList(<<VList(a), VList(b)>>),
            VDict(<< <<"a", VList(a)>>, <<"b", VList(b)>> >>),
            VDict(<< <<"result", VDict(<< <<"data", VList(a)>>,
                                          <<"items", VList(b)>> >>)>> >>),
            VList(<<VDict(<< <<"x", VList(a)>> >>), VDict(<< <<"y", VList(b)>> >>)>>),
            VDict(<< <<"a", VDict(<< <<"b", VList(a)>> >>)>>, <<"c", VList(b)>> >>)}
           : a \in SmallLists, b \in SmallLists}

\* a required field of an item: <<value in the adv sub-object, value at the
\* top level>>, "absent" for a key that is not there
Absent == [t |-> "absent"]
FieldPairs ==
    {<<Absent, Absent>>, <<Absent, VInt(5)>>, <<Absent, VInt(0)>>,
     <<Absent, VStr(<<" ", "1", ",", "0", " ">>)>>, <<Absent, VStr(<<"x">>)>>,
     <<VInt(0), Absent>>, <<VInt(0), VInt(5)>>,
     <<VStr(<<"7">>), Absent>>, <<VStr(<<"7">>), VInt(5)>>,
     <<VStr(<<"x">>), VInt(5)>>, <<None, VInt(5)>>, <<Absent, VHugeInt>>,
     <<Absent, VStr(<<"n", "a", "n">>)>>}

\* the <<key, value>> pairs of the values that are there
Present(pairs) == SelectSeq(pairs, LAMBDA kv : kv[2] # Absent)

\* an item with the required fields as drawn, under their first aliases
FieldItem(price, min, max) ==
    LET adv == Present(<< <<"price", price[1]>>, <<"minAmount", min[1]>>,
                          <<"maxAmount", max[1]>> >>)
        top == Present(<< <<"price", price[2]>>, <<"minAmount", min[2]>>,
                          <<"maxAmount", max[2]>> >>)
    IN  VDict((IF adv = <<>> THEN <<>> ELSE << <<"adv", VDict(adv)>> >>) \o top)

FieldItems ==
    {FieldItem(pr, mn, mx) : pr \in FieldPairs, mn \in FieldPairs, mx \in FieldPairs}

\* payloads whose first item has the drawn fields and whose second is complete
FieldPayloads ==
    {VDict(<< <<"result", VDict(<< <<"items", VList(<<it, ElemOffer>>)>> >>)>> >>)
        : it \in FieldItems}

\* the merchant flag of an item: <<value in the advertiser sub-object, value
\* at the top level>>
MerchantPairs ==
    {<<Absent, Absent>>, <<Absent, VBool(FALSE)>>, <<Absent, VBool(TRUE)>>,
     <<VBool(FALSE), Absent>>, <<VBool(TRUE), Absent>>,
     <<VBool(FALSE), VBool(TRUE)>>, <<VBool(TRUE), VBool(FALSE)>>,
     <<None, Absent>>, <<Absent, VInt(0)>>, <<Absent, VStr(<<"y">>)>>}

\* a complete item with the merchant flag as drawn
MerchantItem(flag) ==
    LET advertiser == Present(<< <<"isMerchant", flag[1]>> >>)
        top == Present(<< <<"merchant", flag[2]>> >>)
    IN  VDict(ElemOffer.kv
              \o (IF advertiser = <<>> THEN <<>>
                  ELSE << <<"advertiser", VDict(advertiser)>> >>)
              \o top)

\* complete items that hold a field under two of its aliases, the one of
\* lower priority first
AliasItems ==
    {VDict(<< <<"rate", VInt(8)>>, <<"price", VInt(4)>>, <<"min", VInt(2)>>,
              <<"minAmount", VInt(1)>>, <<"maxAmount", VInt(9)>> >>),
     VDict(<< <<"adv", VDict(<< <<"unit_price", VInt(8)>>, <<"unitPrice", VInt(4)>>,
                                <<"minFiat", VInt(1)>>, <<"max", VInt(7)>>,
                                <<"maxFiat", VInt(9)>> >>)>>,
              <<"price", VInt(5)>> >>)}

MerchantPayloads ==
    {VDict(<< <<"result", VDict(<< <<"items", VList(<<it, ElemOffer>>)>> >>)>> >>)
        : it \in {MerchantItem(f) : f \in MerchantPairs} \cup AliasItems}

ParseTexts ==
    {None, EmptyText, GarbageText}
    \cup {JsonText(d) : d \in OneListPayloads \cup TwoListPayloads \cup FieldPayloads
                                \cup MerchantPayloads}

ParseInit ==
    /\ psPc = "start"
    /\ psRecord \in {RawFetchRecord(Markets[1], 1, _build_body(1),
                                    IF t = None THEN None ELSE VInt(200), t,
                                    IF t = None THEN ErrorRepr ELSE None) :
                        t \in ParseTexts}
    /\ psItems = <<>>
    /\ psIdx = 0
    /\ psOffers = <<>>

\* parse_raw_fetch, lines 152-161
ExtractItems ==
    /\ psPc = "start"
    /\ IF NoText(psRecord.response_text) \/ Raised(json_loads(psRecord.response_text))
       THEN /\ psPc' = "done"
            /\ UNCHANGED <<psItems, psIdx>>
       ELSE /\ psItems' = _extract_offer_items(json_loads(psRecord.response_text).v)
            /\ psIdx' = 1
            /\ psPc' = "loop"
    /\ UNCHANGED <<psRecord, psOffers>>
    /\ UNCHANGED <<cvars, pgvars, bsvars, hdvars>>

\* lines 163-199, one item of the loop
ParseItem ==
    /\ psPc = "loop"
    /\ psIdx <= Len(psItems)
    /\ LET r == parse_item(psRecord, psItems[psIdx])
       IN  IF Raised(r)
           THEN /\ psPc' = "raised"
                /\ UNCHANGED <<psIdx, psOffers>>
           ELSE /\ psPc' = psPc
                /\ psIdx' = psIdx + 1
                /\ psOffers' = IF r.v = None THEN psOffers ELSE Append(psOffers, r.v)
    /\ UNCHANGED <<psRecord, psItems>>
    /\ UNCHANGED <<cvars, pgvars, bsvars, hdvars>>

\* line 201
ParseReturn ==
    /\ psPc = "loop"
    /\ psIdx > Len(psItems)
    /\ psPc' = "done"
    /\ UNCHANGED <<psRecord, psItems, psIdx, psOffers>>
    /\ UNCHANGED <<cvars, pgvars, bsvars, hdvars>>

InitParse == ParseInit /\ CollectorOff /\ PagesOff /\ BestOff /\ HeadersOff

NextParse == ExtractItems \/ ParseItem \/ ParseReturn

SpecParse == InitParse /\ [][NextParse]_vars

-----------------------------------------------------------------------------
(* Claims on SpecParse.                                                     *)

\* the parsed payload of the record drawn
ParsedPayload == psRecord.response_text.doc

\* json.loads has returned and _extract_offer_items has run
Extracted == psPc \in {"loop", "done", "raised"} /\ psRecord.response_text.t = "json"

\* how many of the first 5 dicts of a sequence of dicts look like an offer
C6_OfferLike(dicts) ==
    Cardinality({i \in 1..Len(dicts) : i <= 5 /\ looks_like_offer(dicts[i])})

\* C6 as claimed: the extractor accepts a list only if at least 2 of its
\* first 5 dict-typed elements look like an offer, and it accepts a list with
\* 2 such elements when that list is the first the search reaches (here: the
\* payload itself).
C6_AcceptedOnlyIfOfferLike ==
    Extracted =>
        /\ psItems # <<>> => C6_OfferLike(psItems) >= 2
        /\ (IsList(ParsedPayload) /\ C6_OfferLike(DictsOf(ParsedPayload.xs)) >= 2) =>
              psItems = DictsOf(ParsedPayload.xs)

\* a well-known shape matches: result is an object with a non-empty list
\* under items, data, list or rows whose first 3 elements are dicts
C6_KnownList(k) ==
    /\ IsDict(ParsedPayload) /\ IsDict(Get(ParsedPayload, "result"))
    /\ LET v == Get(Get(ParsedPayload, "result"), WellKnownKeys[k])
       IN  /\ IsList(v) /\ v.xs # <<>>
           /\ \A i \in 1..Len(v.xs) : i <= 3 => IsDict(v.xs[i])

C6_WellKnown == \E k \in 1..Len(WellKnownKeys) : C6_KnownList(k)

\* the test of the fallback search: the first 3 elements are dicts and at
\* least 2 of the first 5 dict-typed elements look like an offer
C6_Qualifies(xs) ==
    /\ xs # <<>>
    /\ \A i \in 1..Len(xs) : i <= 3 => IsDict(xs[i])
    /\ C6_OfferLike(SelectSeq(xs, IsDict)) >= 2

\* the lists of a JSON tree that lie within the depth of the search
RECURSIVE ListsWithin(_, _)
ListsWithin(obj, depth) ==
    IF depth <= 0 THEN {}
    ELSE IF IsList(obj)
         THEN {obj.xs} \cup UNION {ListsWithin(obj.xs[i], depth - 1) : i \in 1..Len(obj.xs)}
    ELSE IF IsDict(obj)
         THEN UNION {ListsWithin(obj.kv[i][2], depth - 1) : i \in 1..Len(obj.kv)}
    ELSE {}

\* C6 (amended): a list under result.items/data/list/rows that is non-empty
\* and whose first 3 elements are dicts is accepted as it is, by the first such
\* key; otherwise the fallback search accepts a list only if its first 3
\* elements are dicts and at least 2 of its first 5 dict-typed elements look
\* like an offer, a list failing this is rejected and the search continues
\* (no offers only when no list within depth 6 passes), and a list that
\* passes is accepted when it is the first the search reaches.
C6_AcceptanceTest ==
    Extracted =>
        /\ C6_WellKnown =>
              LET k == CHOOSE j \in 1..Len(WellKnownKeys) :
                          /\ C6_KnownList(j)
                          /\ \A i \in 1..(j - 1) : ~C6_KnownList(i)
              IN  psItems = SelectSeq(Get(Get(ParsedPayload, "result"),
                                          WellKnownKeys[k]).xs, IsDict)
        /\ ~C6_WellKnown =>
              /\ psItems # <<>> =>
                    \E xs \in ListsWithin(ParsedPayload, 6) :
                        C6_Qualifies(xs) /\ psItems = SelectSeq(xs, IsDict)
              /\ psItems = <<>> =>
                    \A xs \in ListsWithin(ParsedPayload, 6) : ~C6_Qualifies(xs)
              /\ (IsList(ParsedPayload) /\ C6_Qualifies(ParsedPayload.xs)) =>
                    psItems = SelectSeq(ParsedPayload.xs, IsDict)

\* C6 witness: the search rejected a first list of two dicts that are no
\* offers, went on, and accepted the list after it
C6_Witness ==
    /\ psPc = "done"
    /\ psRecord.response_text =
          JsonText(VList(<<VList(<<ElemOther, ElemOther>>),
                           VList(<<ElemOffer, ElemOffer>>)>>))
    /\ psItems = <<ElemOffer, ElemOffer>>
    /\ Len(psOffers) = 2

\* the adv sub-object of an item
C7_Adv(item) ==
    IF IsDict(Get(item, "adv")) THEN Get(item, "adv")
    ELSE IF IsDict(Get(item, "advertisement")) THEN Get(item, "advertisement")
    ELSE VDict(<<>>)

\* the value found under a field's aliases: that of the first alias present
\* in the adv sub-object, else in the item (a JSON null counts as no value)
C7_Found(item, keys) ==
    IF _first_present(C7_Adv(item), keys) # None
    THEN _first_present(C7_Adv(item), keys)
    ELSE _first_present(item, keys)

\* a number (0 included) or a numeric string
C7_Coercible(v) ==
    \/ v.t = "int" /\ ~v.big
    \/ v.t = "float"
    \/ /\ v.t = "str"
       /\ \/ ~Raised(ParseDecimal(Strip(Remove(v.cs, ","))))
          \/ NanLiteral(Strip(Remove(v.cs, ",")))

C7_Deserves(item) ==
    /\ C7_Coercible(C7_Found(item, _PRICE_KEYS))
    /\ C7_Coercible(C7_Found(item, _MIN_KEYS))
    /\ C7_Coercible(C7_Found(item, _MAX_KEYS))

\* C7: parse_raw_fetch produces an offer for an item if and only if price,
\* minimum and maximum can each be coerced from the number or numeric string
\* found under the field's aliases, a numeric 0 included: the offers so far
\* are as many as the items so far that have all three.
C7_OfferIffCoercible ==
    psPc \in {"loop", "done"} =>
        Len(psOffers) =
            Cardinality({i \in 1..Len(psItems) : i < psIdx /\ C7_Deserves(psItems[i])})

\* the advertiser sub-object of an item
C14_Advertiser(item) ==
    IF IsDict(Get(item, "advertiser")) THEN Get(item, "advertiser")
    ELSE IF IsDict(Get(item, "user")) THEN Get(item, "user")
    ELSE VDict(<<>>)

\* the value the claim has the field take: that of the first alias present
\* in the sub-object, whatever it is, and of the first alias present in the
\* item only when the sub-object has none
C14_Claimed(sub, item, keys) ==
    IF \E i \in 1..Len(keys) : HasKey(sub, keys[i])
    THEN _first_present(sub, keys)
    ELSE _first_present(item, keys)

\* the number a value is coerced to, None if there is none
C14_Number(v) == IF Raised(_to_float(v)) THEN None ELSE _to_float(v).v

\* the offer has its fields from the values claimed for the item
C14_FromClaimed(item, offer) ==
    /\ offer.price_fiat_per_usdt = C14_Number(C14_Claimed(C7_Adv(item), item, _PRICE_KEYS))
    /\ offer.min_fiat = C14_Number(C14_Claimed(C7_Adv(item), item, _MIN_KEYS))
    /\ offer.max_fiat = C14_Number(C14_Claimed(C7_Adv(item), item, _MAX_KEYS))
    /\ offer.rating = C14_Number(C14_Claimed(C14_Advertiser(item), item, _RATING_KEYS))
    /\ LET m == C14_Claimed(C14_Advertiser(item), item, _MERCHANT_KEYS)
       IN  offer.is_merchant = IF m = None THEN None ELSE VBool(Truthy(m))

\* C14: for every item that yields an offer, each field mapped by aliases
\* has the value of the first alias present in the item's sub-object, and
\* that of the first alias present in the item itself only when the
\* sub-object holds no alias of the field: a value of the sub-object has
\* priority whatever it is.
C14_SubObjectFirst ==
    [][(psPc = "loop" /\ Len(psOffers') = Len(psOffers) + 1) =>
          C14_FromClaimed(psItems[psIdx], psOffers'[Len(psOffers')])]_vars

\* the merchant flag the payload gives for the item: that of the advertiser
\* sub-object, else that of the item (a JSON null counts as no value)
C15_Given(item) ==
    IF _first_present(C14_Advertiser(item), _MERCHANT_KEYS) # None
    THEN _first_present(C14_Advertiser(item), _MERCHANT_KEYS)
    ELSE _first_present(item, _MERCHANT_KEYS)

\* C15: the merchant flag of an offer is unknown exactly when the item has no
\* merchant-flag alias, in its advertiser sub-object or at its top level;
\* it is false when the payload gives the boolean false and true when it
\* gives true.
C15_UnknownIsNotFalse ==
    [][(psPc = "loop" /\ Len(psOffers') = Len(psOffers) + 1) =>
          LET given == C15_Given(psItems[psIdx])
              flag  == psOffers'[Len(psOffers')].is_merchant
          IN  /\ flag = None <=> given = None
              /\ given = VBool(FALSE) => flag = VBool(FALSE)
              /\ given = VBool(TRUE) => flag = VBool(TRUE)]_vars

\* the non-empty lists of a JSON tree down to level 6, the root being level 1,
\* each with its level, in document order: a list before the lists in it,
\* the elements of a list and the values of a dict in their order
RECURSIVE C16_ListsInOrder(_, _), C16_ListsOfAll(_, _)
C16_ListsInOrder(obj, level) ==
    IF level > 6 THEN <<>>
    ELSE IF IsList(obj)
         THEN (IF obj.xs = <<>> THEN <<>> ELSE << <<level, obj.xs>> >>)
              \o C16_ListsOfAll(obj.xs, level + 1)
    ELSE IF IsDict(obj)
         THEN C16_ListsOfAll([i \in 1..Len(obj.kv) |-> obj.kv[i][2]], level + 1)
    ELSE <<>>
C16_ListsOfAll(objs, level) ==
    IF objs = <<>> THEN <<>>
    ELSE C16_ListsInOrder(Head(objs), level) \o C16_ListsOfAll(Tail(objs), level)

\* those of them that pass the acceptance test
C16_Qualifying ==
    SelectSeq(C16_ListsInOrder(ParsedPayload, 1), LAMBDA e : C6_Qualifies(e[2]))

\* C16 as claimed: with no well-known shape, the extractor returns the
\* qualifying list at the shallowest level, the earliest of those at that
\* level, and no offers if no list down to level 6 qualifies.
C16_ShallowerFirst ==
    (Extracted /\ ~C6_WellKnown) =>
        IF C16_Qualifying = <<>> THEN psItems = <<>>
        ELSE LET q == C16_Qualifying
                 k == CHOOSE i \in 1..Len(q) :
                         \A j \in 1..Len(q) :
                             q[i][1] < q[j][1] \/ (q[i][1] = q[j][1] /\ i <= j)
             IN  psItems = SelectSeq(q[k][2], IsDict)

\* C16 (amended): with no well-known shape, the extractor returns the first
\* qualifying list in depth-first document order, a list before the lists
\* nested in it and before everything after it, whatever the levels (so a
\* deeper list that comes earlier wins over a shallower one that comes
\* later); lists below level 6 are not examined; no offers if none qualifies.
C16_FirstInDocumentOrder ==
    (Extracted /\ ~C6_WellKnown) =>
        IF C16_Qualifying = <<>> THEN psItems = <<>>
        ELSE psItems = SelectSeq(C16_Qualifying[1][2], IsDict)

\* C16 witness: a qualifying list at level 3 that comes before a qualifying
\* list at level 2 has been returned
C16_Witness ==
    /\ psPc = "done"
    /\ psRecord.response_text =
          JsonText(VDict(<< <<"a", VDict(<< <<"b", VList(<<ElemOffer, ElemOffer>>)>> >>)>>,
                            <<"c", VList(<<ElemAdv, ElemAdv>>)>> >>))
    /\ psItems = <<ElemOffer, ElemOffer>>

-----------------------------------------------------------------------------
(* Spec: one cycle of collect_once over cfg.markets.                        *)

\* the most pages the upstream's count asks for in a cycle
MaxUpstreamPages == 3

\* @retry(stop=stop_after_attempt(3), ...)
stop_after_attempt_four == 3 + 1

stop_after_attempt == 3

\* what a response to a page-1 request may carry: <<status_code, text>>
PageOneResponses ==
    {<<VInt(200), ResultWith(VInt(c))>> :
        c \in {0} \cup {10 * (k - 1) + 1 : k \in 2..MaxUpstreamPages}}
    \cup {<<VInt(200), ResultWith(VHugeInt)>>}
    \cup {<<VInt(200), t>> : t \in NoCountTexts \ {None}}
    \cup {<<VInt(500), GarbageText>>}

\* what a response to a request of a later page may carry
LaterPageResponses ==
    {<<VInt(200), ResultWith(VInt(11))>>}

Responses(p) == IF p = 1 THEN PageOneResponses ELSE LaterPageResponses

\* _log_and_store: store.append(rec) writes one line; the rest only logs
_log_and_store_drops_failures(st, rec) ==
    IF rec.error # None THEN st ELSE Append(st, rec)

_log_and_store(st, rec) == Append(st, rec)

\* a fetch_market_page call that has started and not returned; attempts is
\* tenacity's count of the attempts made, which lives as long as _request runs
Started == [attempts |-> 0, rec |-> None, stored |-> FALSE]

Running(p) == p \in DOMAIN fetch /\ fetch[p].rec = None

\* the coroutine of page p may run: page 1 is awaited by collect_once itself,
\* the later pages are tasks running while collect_once awaits as_completed
Scheduled(p) ==
    /\ Running(p)
    /\ IF p = 1 THEN pc = "page1" ELSE pc = "gather"

CollectorInit ==
    /\ pc = "page1"
    /\ mi = 1
    /\ max_pages \in {0 - 1, 0, 2}
    /\ fetch = (1 :> Started)
    /\ completed = <<>>
    /\ store = <<>>
    /\ issued = {<<1, 1>>}
    /\ derived = [m \in 1..Len(Markets) |-> Return(0)]
    /\ crash = ""

Finish(p, rec) ==
    /\ fetch' = [fetch EXCEPT ![p] = [attempts |-> 0, rec |-> rec, stored |-> FALSE]]
    /\ completed' = IF p = 1 THEN completed ELSE Append(completed, p)

\* _request, one attempt, client.request returns; fetch_market_page lines 91-93, 99-112
RequestResponds(p, resp) ==
    /\ Scheduled(p)
    /\ Finish(p, RawFetchRecord(Markets[mi], p, _build_body(p), resp[1], resp[2], None))
    /\ UNCHANGED <<pc, mi, max_pages, store, issued, derived, crash>>
    /\ UNCHANGED <<pgvars, psvars, bsvars, hdvars>>

\* _request, one attempt, client.request raises and tenacity retries
RequestRaisesRetry(p) ==
    /\ Scheduled(p)
    /\ fetch[p].attempts + 1 < stop_after_attempt
    /\ fetch' = [fetch EXCEPT ![p].attempts = @ + 1]
    /\ UNCHANGED <<pc, mi, max_pages, completed, store, issued, derived, crash>>
    /\ UNCHANGED <<pgvars, psvars, bsvars, hdvars>>

\* _request, the last attempt raises: reraise; fetch_market_page lines 94-97, 99-112
RequestRaisesLast(p) ==
    /\ Scheduled(p)
    /\ fetch[p].attempts + 1 >= stop_after_attempt
    /\ Finish(p, RawFetchRecord(Markets[mi], p, _build_body(p), None, None, ErrorRepr))
    /\ UNCHANGED <<pc, mi, max_pages, store, issued, derived, crash>>
    /\ UNCHANGED <<pgvars, psvars, bsvars, hdvars>>

\* the `for market in cfg.markets` loop moves on: line 121 for the next
\* market, or the end of collect_once
NextMarket ==
    IF mi < Len(Markets)
    THEN /\ mi' = mi + 1
         /\ pc' = "page1"
         /\ fetch' = (1 :> Started)
         /\ issued' = issued \cup {<<mi + 1, 1>>}
    ELSE /\ mi' = mi
         /\ pc' = "done"
         /\ fetch' = <<>>
         /\ issued' = issued

\* lines 122-137: page 1 has returned; _log_and_store, the page plan, the tasks
StoreFirst ==
    /\ pc = "page1"
    /\ fetch[1].rec # None
    /\ store' = _log_and_store(store, fetch[1].rec)
    /\ derived' = [derived EXCEPT ![mi] = _derive_total_pages(fetch[1].rec)]
    /\ IF Raised(derived'[mi])
       THEN /\ pc' = "crashed"
            /\ crash' = "derive"
            /\ fetch' = <<>>
            /\ UNCHANGED <<mi, issued>>
       ELSE /\ crash' = crash
            /\ LET pages == task_pages(derived'[mi].v, max_pages)
               IN  IF pages = {}
                   THEN NextMarket
                   ELSE /\ pc' = "gather"
                        /\ mi' = mi
                        /\ fetch' = [p \in {1} \cup pages |->
                                        IF p = 1 THEN [fetch[1] EXCEPT !.stored = TRUE]
                                        ELSE Started]
                        /\ issued' = issued \cup {<<mi, p>> : p \in pages}
    /\ UNCHANGED <<max_pages, completed>>
    /\ UNCHANGED <<pgvars, psvars, bsvars, hdvars>>

\* the loop over as_completed ends with the first task yielded
as_completed_first_only(p) == TRUE

\* lines 139-141: page p is the last the iterator of as_completed yields,
\* every other task having been yielded and its record stored
as_completed_exhausted(p) == \A q \in DOMAIN fetch : q = p \/ fetch[q].stored

\* lines 139-141: as_completed yields the next finished task; _log_and_store
StoreNext ==
    /\ pc = "gather"
    /\ completed # <<>>
    /\ LET p == Head(completed)
       IN  /\ store' = _log_and_store(store, fetch[p].rec)
           /\ completed' = Tail(completed)
           /\ IF as_completed_exhausted(p)
              THEN NextMarket
              ELSE /\ fetch' = [fetch EXCEPT ![p].stored = TRUE]
                   /\ UNCHANGED <<pc, mi, issued>>
    /\ UNCHANGED <<max_pages, derived, crash>>
    /\ UNCHANGED <<pgvars, psvars, bsvars, hdvars>>

\* store.append raises (the directory or the file cannot be written): the
\* exception leaves collect_once, and the tasks still running are cancelled
\* when the event loop closes
StoreFails ==
    /\ \/ pc = "page1" /\ fetch[1].rec # None
       \/ pc = "gather" /\ completed # <<>>
    /\ pc' = "crashed"
    /\ crash' = "store"
    /\ fetch' = <<>>
    /\ completed' = <<>>
    /\ UNCHANGED <<mi, max_pages, store, issued, derived>>
    /\ UNCHANGED <<pgvars, psvars, bsvars, hdvars>>

Init == CollectorInit /\ PagesOff /\ ParseOff /\ BestOff /\ HeadersOff

Next ==
    \/ \E p \in DOMAIN fetch : \E resp \in Responses(p) : RequestResponds(p, resp)
    \/ \E p \in DOMAIN fetch : RequestRaisesRetry(p)
    \/ \E p \in DOMAIN fetch : RequestRaisesLast(p)
    \/ StoreFirst
    \/ StoreNext
    \/ StoreFails

Spec == Init /\ [][Next]_vars

-----------------------------------------------------------------------------
(* Claims on Spec.                                                          *)

\* the records the Raw Store holds for page p of market m
RecordsOf(m, p) ==
    {i \in 1..Len(store) : store[i].market = Markets[m].name /\ store[i].page = p}

\* C1: in a cycle in which no Raw Store write fails, every page the collector
\* fetches for a market ends with exactly one record in the Raw Store, a
\* success or a failure, whatever order the tasks complete in: a fetched page
\* never has two records, no record is of a page that was not fetched, every
\* page of a market the cycle has left has its record, and so has every
\* fetched page once the cycle has ended.
C1_ExactlyOneRecord ==
    /\ \A mp \in issued : Cardinality(RecordsOf(mp[1], mp[2])) <= 1
    /\ \A i \in 1..Len(store) :
          \E mp \in issued :
              store[i].market = Markets[mp[1]].name /\ store[i].page = mp[2]
    /\ \A mp \in issued : mp[1] < mi => Cardinality(RecordsOf(mp[1], mp[2])) = 1
    /\ (pc \in {"done", "crashed"} /\ crash # "store") =>
          \A mp \in issued : Cardinality(RecordsOf(mp[1], mp[2])) = 1

\* C1 witness: a finished cycle that stored a failed later page, and stored a
\* market's page 3 before its page 2
C1_Witness ==
    /\ pc = "done"
    /\ \E i \in 1..Len(store) : store[i].page > 1 /\ store[i].error # None
    /\ \E i, j \in 1..Len(store) :
          /\ i < j /\ store[i].market = store[j].market
          /\ store[i].page = 3 /\ store[j].page = 2

\* the step finishes the fetch of page p: fetch_market_page returns its record
Finishes(p) ==
    /\ p \in DOMAIN fetch /\ p \in DOMAIN fetch'
    /\ fetch[p].rec = None /\ fetch'[p].rec # None

\* C3: a page fetch makes at most 3 HTTP requests; a further request follows
\* only a request that raised, and a response ends the fetch; when all 3
\* raise, the fetch yields a record with no status, no body and an error; a
\* finished fetch is final for its page, and finishing one, failed or not,
\* leaves collect_once where it is and the other fetches untouched.
C3_BoundedRetry ==
    /\ [](\A p \in DOMAIN fetch : fetch[p].attempts < 3)
    /\ [][\A p \in DOMAIN fetch :
            /\ Finishes(p) =>
                  /\ fetch'[p].rec.error # None =>
                        /\ fetch[p].attempts = 2
                        /\ fetch'[p].rec.http_status = None
                        /\ fetch'[p].rec.response_text = None
                  /\ fetch'[p].rec.error = None =>
                        /\ fetch'[p].rec.http_status # None
                        /\ fetch'[p].rec.response_text # None
                  /\ pc' = pc /\ mi' = mi /\ crash' = crash /\ store' = store
                  /\ \A q \in DOMAIN fetch \ {p} :
                        q \in DOMAIN fetch' /\ fetch'[q] = fetch[q]
            /\ (fetch[p].rec = None /\ p \in DOMAIN fetch' /\ ~Finishes(p)
                  /\ fetch'[p] # fetch[p]) =>
                  fetch'[p] = [fetch[p] EXCEPT !.attempts = @ + 1]
            /\ (fetch[p].rec # None /\ p \in DOMAIN fetch' /\ mi' = mi
                  /\ pc' # "page1") =>
                  fetch'[p].rec = fetch[p].rec
         ]_vars

\* C3 witness: the cycle ended normally although page 2 of the first market
\* failed after its retries; the second market's records follow it
C3_Witness ==
    /\ pc = "done"
    /\ \E i, j \in 1..Len(store) :
          /\ i < j
          /\ store[i].market = Markets[1].name /\ store[i].page = 2
          /\ store[i].error # None /\ store[i].http_status = None
          /\ store[j].market = Markets[2].name /\ store[j].page = 2

\* the pages fetch_market_page was called for, for market m
IssuedPages(m) == {mp[2] : mp \in {x \in issued : x[1] = m}}

\* C5: when the page-1 record of a market has no body (the fetch failed), an
\* empty body, a body that is no JSON, no JSON object, has no result object,
\* or a result without a count or with a non-numeric count,
\* _derive_total_pages returns 1 without raising, only page 1 of that market
\* is fetched, and the cycle has gone on to the next market (or has ended
\* after the last one).
C5_ConservativeOnePage ==
    \A m \in 1..Len(Markets) :
        \A i \in RecordsOf(m, 1) :
            store[i].response_text \in NoCountTexts =>
                /\ derived[m] = Return(1)
                /\ IssuedPages(m) = {1}
                /\ IF m < Len(Markets) THEN mi > m ELSE pc = "done"

\* C5 witness: the first market's page 1 came back without a count (a body
\* that was received), and the second market was then collected over 3 pages
C5_Witness ==
    /\ pc = "done"
    /\ \E i \in RecordsOf(1, 1) :
          /\ store[i].response_text \in NoCountTexts
          /\ store[i].response_text # None
    /\ IssuedPages(2) = {1, 2, 3}

-----------------------------------------------------------------------------
(* SpecBest: one call of best_single.                                       *)

\* the longest list of offers drawn
MaxOffers == 3

\* an offer as parse_raw_fetch stamps it from a record of market m
OfferOf(m, price, min_fiat, max_fiat, payment_methods, is_merchant, rating, key) ==
    Offer(RawFetchRecord(Markets[m], 1, _build_body(1), VInt(200), EmptyText, None),
          price, min_fiat, max_fiat, payment_methods, is_merchant, rating, VStr(<<key>>))

Bank  == <<"b", "a", "n", "k">>
Cash  == <<"c", "a", "s", "h">>
Zelle == <<"z", "e", "l", "l", "e">>

\* SELL-side offers: two tied on price, a cheaper one with a narrow window and
\* a low rating, one whose price is not a number
SellA == OfferOf(2, VFloat(3), VFloat(1), VFloat(10), <<Bank>>, VBool(TRUE), VFloat(5), "a")
SellB == OfferOf(2, VFloat(3), VFloat(1), VFloat(10), <<Cash>>, None, None, "b")
SellC == OfferOf(2, VFloat(2), VFloat(5), VFloat(10), <<Bank>>, VBool(FALSE), VFloat(1), "c")
SellD == OfferOf(2, NaN, VFloat(1), VFloat(10), <<>>, VBool(TRUE), None, "d")
\* BUY-side offers
BuyE == OfferOf(1, VFloat(2), VFloat(1), VFloat(10), <<Bank>>, VBool(TRUE), VFloat(5), "e")
BuyF == OfferOf(1, VFloat(3), VFloat(1), VFloat(20), <<Cash>>, None, None, "f")
BuyG == OfferOf(1, NaN, VFloat(1), VFloat(10), <<Bank, Cash>>, VBool(FALSE), VFloat(1), "g")

Catalogue == {SellA, SellB, SellC, SellD, BuyE, BuyF, BuyG}

OfferLists == UNION {[1..n -> Catalogue] : n \in 0..MaxOffers}

Directions == {"buy_usdt", "sell_usdt"}

Amounts == {VFloat(3), VFloat(6), VFloat(25)}

ConstraintChoices ==
    {Constraints(None, FALSE, VFloat(0)),
     Constraints(VSet({Bank}), FALSE, VFloat(0)),
     Constraints(VSet({}), FALSE, VFloat(0)),
     Constraints(VSet({Zelle}), FALSE, VFloat(0)),
     Constraints(None, TRUE, VFloat(0)),
     Constraints(None, FALSE, VFloat(3))}

\* the call: line 55
BestInit ==
    /\ bsPc = "loop"
    /\ bsOffers \in OfferLists
    /\ bsDirection \in Directions
    /\ bsAmount \in Amounts
    /\ bsConstraints \in ConstraintChoices
    /\ bsIdx = 1
    /\ candidates = <<>>
    /\ bsResult = None

\* lines 56-69: one turn of the loop
FilterOffer ==
    /\ bsPc = "loop"
    /\ bsIdx <= Len(bsOffers)
    /\ candidates' = IF keeps(bsOffers[bsIdx], bsDirection, bsAmount, bsConstraints)
                     THEN Append(candidates, bsOffers[bsIdx])
                     ELSE candidates
    /\ bsIdx' = bsIdx + 1
    /\ UNCHANGED <<bsPc, bsOffers, bsDirection, bsAmount, bsConstraints, bsResult>>
    /\ UNCHANGED <<cvars, pgvars, psvars, hdvars>>

\* lines 71-72
ReturnNone ==
    /\ bsPc = "loop"
    /\ bsIdx > Len(bsOffers)
    /\ candidates = <<>>
    /\ bsResult' = None
    /\ bsPc' = "done"
    /\ UNCHANGED <<bsOffers, bsDirection, bsAmount, bsConstraints, bsIdx, candidates>>
    /\ UNCHANGED <<cvars, pgvars, psvars, hdvars>>

\* lines 74-79
ReturnBest ==
    /\ bsPc = "loop"
    /\ bsIdx > Len(bsOffers)
    /\ candidates # <<>>
    /\ LET best == best_of(candidates, bsDirection)
       IN  bsResult' = BestSingleResult(best, best.price_fiat_per_usdt)
    /\ bsPc' = "done"
    /\ UNCHANGED <<bsOffers, bsDirection, bsAmount, bsConstraints, bsIdx, candidates>>
    /\ UNCHANGED <<cvars, pgvars, psvars, hdvars>>

InitBest == BestInit /\ CollectorOff /\ PagesOff /\ ParseOff /\ HeadersOff

NextBest == FilterOffer \/ ReturnNone \/ ReturnBest

SpecBest == InitBest /\ [][NextBest]_vars

-----------------------------------------------------------------------------
(* Claims on SpecBest.                                                      *)

\* the offer passes all constraints: merchant-only, minimum score with an
\* unknown score passing, overlap with a non-empty accepted set
C8_PassesAll(o) ==
    /\ bsConstraints.merchant_only => o.is_merchant = VBool(TRUE)
    /\ o.rating # None => ~FloatLt(o.rating, bsConstraints.min_rating)
    /\ (bsConstraints.payment_methods_any # None
            /\ bsConstraints.payment_methods_any.s # {}) =>
          Range(o.payment_methods) \cap bsConstraints.payment_methods_any.s # {}

\* the places of the input whose offer can be executed for acquiring
C8_Acquirable ==
    {i \in 1..Len(bsOffers) :
        /\ bsOffers[i].side = "SELL"
        /\ C8_PassesAll(bsOffers[i])
        /\ FloatLe(bsOffers[i].min_fiat, bsAmount)
        /\ FloatLe(bsAmount, bsOffers[i].max_fiat)}

\* C8: for buy_usdt, a returned offer is a SELL-side offer of the input that
\* passes all constraints and whose window holds the amount, its price is
\* the minimum price over all such offers, and it is the first of the input
\* among those tied at that price.
C8_AcquireMinimum ==
    (bsPc = "done" /\ bsDirection = "buy_usdt" /\ bsResult # None) =>
        \E i \in C8_Acquirable :
            /\ bsResult.offer = bsOffers[i]
            /\ bsResult.price_fiat_per_usdt = bsOffers[i].price_fiat_per_usdt
            /\ \A j \in C8_Acquirable \ {i} :
                  /\ FloatLe(bsOffers[i].price_fiat_per_usdt,
                             bsOffers[j].price_fiat_per_usdt)
                  /\ j < i => bsOffers[j].price_fiat_per_usdt
                                  # bsOffers[i].price_fiat_per_usdt

\* the places of the input whose offer can be executed for disposing
C9_Disposable ==
    {i \in 1..Len(bsOffers) :
        /\ bsOffers[i].side = "BUY"
        /\ C8_PassesAll(bsOffers[i])
        /\ FloatLe(bsOffers[i].min_fiat,
                   FloatMul(bsAmount, bsOffers[i].price_fiat_per_usdt))
        /\ FloatLe(FloatMul(bsAmount, bsOffers[i].price_fiat_per_usdt),
                   bsOffers[i].max_fiat)}

\* C9: for sell_usdt, a returned offer is a BUY-side offer of the input that
\* passes all constraints and whose window holds the amount times the offer's
\* own price, and its price is the maximum price over all such offers.
C9_DisposeMaximum ==
    (bsPc = "done" /\ bsDirection = "sell_usdt" /\ bsResult # None) =>
        \E i \in C9_Disposable :
            /\ bsResult.offer = bsOffers[i]
            /\ bsResult.price_fiat_per_usdt = bsOffers[i].price_fiat_per_usdt
            /\ \A j \in C9_Disposable \ {i} :
                  FloatLe(bsOffers[j].price_fiat_per_usdt,
                          bsOffers[i].price_fiat_per_usdt)

\* C9 witness: disposing 6 units, the 2-priced offer's window does not hold
\* 6 * 2 although it holds 6, and the 3-priced offer behind it is returned
C9_Witness ==
    /\ bsPc = "done" /\ bsDirection = "sell_usdt" /\ bsAmount = VFloat(6)
    /\ bsOffers = <<BuyE, BuyG, BuyF>>
    /\ bsConstraints = Constraints(None, FALSE, VFloat(0))
    /\ bsResult = BestSingleResult(BuyF, VFloat(3))

\* the places of the input whose offer survives filtering
C10_Surviving == IF bsDirection = "buy_usdt" THEN C8_Acquirable ELSE C9_Disposable

\* the amount, as fiat, lies in the window of the offer
C10_InWindow(o) ==
    LET fiat == IF bsDirection = "buy_usdt" THEN bsAmount
                ELSE FloatMul(bsAmount, o.price_fiat_per_usdt)
    IN  FloatLe(o.min_fiat, fiat) /\ FloatLe(fiat, o.max_fiat)

\* C10: best_single returns (it has no step that raises), and returns absent
\* exactly when no offer of the input survives filtering: so when the amount
\* is outside every window, and when a non-empty accepted set overlaps no
\* offer's payment methods.  An offer of unknown score that passes the other
\* rules is a candidate; an offer of known score below the minimum is not.
C10_AbsentIffNoneSurvives ==
    /\ bsPc \in {"off", "loop", "done"}
    /\ bsPc = "done" =>
        /\ bsResult = None <=> C10_Surviving = {}
        /\ (\A i \in 1..Len(bsOffers) : ~C10_InWindow(bsOffers[i])) => bsResult = None
        /\ (/\ bsConstraints.payment_methods_any # None
            /\ bsConstraints.payment_methods_any.s # {}
            /\ \A i \in 1..Len(bsOffers) :
                  Range(bsOffers[i].payment_methods)
                      \cap bsConstraints.payment_methods_any.s = {})
              => bsResult = None
        /\ \A i \in 1..Len(bsOffers) :
              LET o == bsOffers[i]
              IN  /\ (o.rating # None /\ FloatLt(o.rating, bsConstraints.min_rating))
                        => o \notin Range(candidates)
                  /\ (/\ o.rating = None
                      /\ bsConstraints.merchant_only => o.is_merchant = VBool(TRUE)
                      /\ (bsConstraints.payment_methods_any # None
                              /\ bsConstraints.payment_methods_any.s # {}) =>
                            Range(o.payment_methods)
                                \cap bsConstraints.payment_methods_any.s # {}
                      /\ o.side = (IF bsDirection = "buy_usdt" THEN "SELL" ELSE "BUY")
                      /\ C10_InWindow(o))
                        => o \in Range(candidates)

\* C10 witness: a minimum score of 3 removes the offer of score 1 and keeps
\* the one of unknown score behind it, which is returned
C10_Witness ==
    /\ bsPc = "done" /\ bsDirection = "buy_usdt" /\ bsAmount = VFloat(6)
    /\ bsOffers = <<SellC, SellB>>
    /\ bsConstraints = Constraints(None, FALSE, VFloat(3))
    /\ candidates = <<SellB>>
    /\ bsResult = BestSingleResult(SellB, VFloat(3))

-----------------------------------------------------------------------------
(* SpecHeaders: fetch_market_page for one page under a configured header    *)
(* map, and the record handed to the Raw Store.                              *)

\* the headers a configuration may hold, in the order it holds them:
\* sensitive names in several casings, names that are not sensitive
HeaderPool ==
    << <<<<"C", "o", "o", "k", "i", "e">>, <<"v", "0">>>>,
       <<<<"c", "o", "o", "k", "i", "e">>, <<"v", "1">>>>,
       <<<<"A", "U", "T", "H", "O", "R", "I", "Z", "A", "T", "I", "O", "N">>, <<"v", "2">>>>,
       <<<<"X", "-", "A", "p", "i", "-", "K", "e", "y">>, <<"v", "3">>>>,
       <<<<"X", "-", "C", "S", "R", "F", "-", "T", "o", "k", "e", "n">>, <<"v", "4">>>>,
       <<<<"r", "i", "s", "k", "T", "o", "k", "e", "n">>, <<"v", "5">>>>,
       <<<<"g", "u", "i", "d">>, <<"v", "6">>>>,
       <<<<"t", "r", "a", "c", "e", "p", "a", "r", "e", "n", "t">>, <<"v", "7">>>>,
       <<<<"A", "c", "c", "e", "p", "t">>, <<"v", "8">>>>,
       <<<<"U", "s", "e", "r", "-", "A", "g", "e", "n", "t">>, <<"v", "9">>>>,
       <<<<"C", "o", "o", "k", "i", "e", "s">>, <<"v", "10">>>> >>

\* the sub-maps of the pool
HeaderMaps ==
    {SelectSeq(HeaderPool, LAMBDA kv : kv \in keep) : keep \in SUBSET Range(HeaderPool)}

\* what _request returns: a status and a text, a status >= 400 included
HeaderResponses == {<<VInt(200), JsonText(VDict(<<>>))>>, <<VInt(403), GarbageText>>}

HeadersInit ==
    /\ hdPc = "fetch"
    /\ hdHeaders \in HeaderMaps
    /\ hdPage \in {1, 2}
    /\ hdRecord = None
    /\ hdStore = <<>>

\* lines 83-93, 99-112: _request returned a response
FetchResponds ==
    /\ hdPc = "fetch"
    /\ \E resp \in HeaderResponses :
          hdRecord' = FetchedRecord(hdHeaders, Markets[1], hdPage, resp[1], resp[2], None)
    /\ hdPc' = "store"
    /\ UNCHANGED <<hdHeaders, hdPage, hdStore>>
    /\ UNCHANGED <<cvars, pgvars, psvars, bsvars>>

\* lines 94-97, 99-112: the last attempt of _request raised
FetchRaises ==
    /\ hdPc = "fetch"
    /\ hdRecord' = FetchedRecord(hdHeaders, Markets[1], hdPage, None, None, ErrorRepr)
    /\ hdPc' = "store"
    /\ UNCHANGED <<hdHeaders, hdPage, hdStore>>
    /\ UNCHANGED <<cvars, pgvars, psvars, bsvars>>

\* _log_and_store(store, record)
StoreRecord ==
    /\ hdPc = "store"
    /\ hdStore' = _log_and_store(hdStore, hdRecord)
    /\ hdPc' = "done"
    /\ UNCHANGED <<hdHeaders, hdPage, hdRecord>>
    /\ UNCHANGED <<cvars, pgvars, psvars, bsvars>>

InitHeaders == HeadersInit /\ CollectorOff /\ PagesOff /\ ParseOff /\ BestOff

NextHeaders == FetchResponds \/ FetchRaises \/ StoreRecord

SpecHeaders == InitHeaders /\ [][NextHeaders]_vars

-----------------------------------------------------------------------------
(* Claims on SpecHeaders.                                                   *)

\* the header name, lower-cased, is in the sensitive set
C11_Sensitive(name) == lower(name) \in _SENSITIVE_HEADERS

\* C11: whatever the casing of the configured header names, the request
\* headers of every record handed to the Raw Store hold no header whose
\* lower-cased name is sensitive, and hold every other configured header
\* with its value unchanged.
C11_NoSensitiveHeaderStored ==
    \A i \in 1..Len(hdStore) :
        /\ \A kv \in Range(hdStore[i].request_headers) :
              ~C11_Sensitive(kv[1]) /\ kv \in Range(hdHeaders)
        /\ \A kv \in Range(hdHeaders) :
              ~C11_Sensitive(kv[1]) => kv \in Range(hdStore[i].request_headers)

\* C11 witness: of Cookie, <<"A", "U", "T", "H", "O", "R", "I", "Z", "A", "T", "I", "O", "N">>ORIZATION, riskToken and Accept only Accept
\* is in the stored record
C11_Witness ==
    /\ hdPc = "done"
    /\ [j \in 1..Len(hdHeaders) |-> hdHeaders[j][1]] =
          <<<<"C", "o", "o", "k", "i", "e">>, <<"A", "U", "T", "H", "O", "R", "I", "Z", "A", "T", "I", "O", "N">>, <<"r", "i", "s", "k", "T", "o", "k", "e", "n">>, <<"A", "c", "c", "e", "p", "t">>>>
    /\ Len(hdStore) = 1
    /\ hdStore[1].request_headers = << <<<<"A", "c", "c", "e", "p", "t">>, <<"v", "8">>>> >>

-----------------------------------------------------------------------------
(* Further claims on Spec.                                                  *)

\* the records fetch_market_page has returned in the current market, and
\* the records of the Raw Store
C12_Records ==
    {fetch[p].rec : p \in {q \in DOMAIN fetch : fetch[q].rec # None}}
        \cup Range(store)

\* C12: every record fetch_market_page returns, and so every record of the
\* Raw Store, has either a response body and an HTTP status and no error
\* (also for a status >= 400), or an error and neither body nor status;
\* none has both a body and an error, none has neither.
C12_BodyXorError ==
    \A rec \in C12_Records :
        \/ rec.response_text # None /\ rec.http_status # None /\ rec.error = None
        \/ rec.response_text = None /\ rec.http_status = None /\ rec.error # None

\* C12 witness: the store holds the record of a response of status 500,
\* body and no error, and the record of a fetch whose every attempt raised
C12_Witness ==
    \E i, j \in 1..Len(store) :
        /\ store[i].http_status = VInt(500)
        /\ store[i].response_text = GarbageText
        /\ store[i].error = None
        /\ store[j].error = ErrorRepr
        /\ store[j].response_text = None
        /\ store[j].http_status = None

\* the <<market, page>> requests issued whose record is not in the store
C13_Unstored == {mp \in issued : RecordsOf(mp[1], mp[2]) = {}}

\* C13: the fetches in flight belong to one market; a request for a page
\* after the first is issued only once the page-1 record of its market is
\* stored; a request for a market is issued only once every record of the
\* pages of the market before it is stored.
C13_OneMarketAtATime ==
    /\ \A a, b \in C13_Unstored : a[1] = b[1]
    /\ \A mp \in issued : mp[2] > 1 => RecordsOf(mp[1], 1) # {}
    /\ \A mp \in issued : \A before \in issued :
          before[1] < mp[1] => RecordsOf(before[1], before[2]) # {}

\* C13 witness: the second market's page 1 is in flight after the first
\* market issued three pages and stored the three records
C13_Witness ==
    /\ pc = "page1" /\ mi = 2 /\ Running(1)
    /\ {mp \in issued : mp[1] = 1} = {<<1, 1>>, <<1, 2>>, <<1, 3>>}
    /\ \A p \in 1..3 : RecordsOf(1, p) # {}
    /\ C13_Unstored = {<<2, 1>>}

=============================================================================
